---- MODULE Spec2Model ----
(***************************************************************************)
(* Crop-yield prediction service (src/predictor_api/main.py) and the       *)
(* feature engineering of the training script                              *)
(* (src/yield-model/crop_yield_model.py).                                  *)
(*                                                                         *)
(* Strings are tuples of one-character strings, so that str.title() is     *)
(* modelled by what it does.  NDVI is a fixed-point number: the integer v  *)
(* stands for v / NdviSteps.  Yields are integers in thousandths of a      *)
(* ton/hectare before rounding and in hundredths after round(x, 2).        *)
(***************************************************************************)
EXTENDS Integers, Sequences, FiniteSets

VARIABLES
    pc,         \* position of the module-level code: boot, derive, except, serving
    disk,       \* what is at training_data/crop_yield_predictor.pkl
    model,      \* the global `model`
    CROP_LIST,  \* the global `CROP_LIST`
    bound,      \* which of the two global names are bound
    slot,       \* per client connection: the request in flight and its response
    csv,        \* training script: one raw row of crop_yield_data.csv
    trainRow,   \* training script: that row after feature engineering
    inputRow    \* training script: the row predict_yield builds for the same values

vars == <<pc, disk, model, CROP_LIST, bound, slot, csv, trainRow, inputRow>>

(***************************************************************************)
(* Bounds                                                                  *)
(***************************************************************************)
\* NDVI grid: v in -NdviSteps .. 2*NdviSteps stands for the NDVI v/NdviSteps
NdviSteps == 2
\* months range over (1 - MonthSlack) .. (12 + MonthSlack)
MonthSlack == 2
\* temperatures and humidities range over 0 .. MaxReading
MaxReading == 2

Clients == {"c1", "c2"}

NdviInputs == (0 - NdviSteps) .. (2 * NdviSteps)

(***************************************************************************)
(* Strings and str.title()                                                 *)
(***************************************************************************)
LowerChars == <<"a","b","c","d","e","f","g","h","i","j","k","l","m",
                "n","o","p","q","r","s","t","u","v","w","x","y","z">>
UpperChars == <<"A","B","C","D","E","F","G","H","I","J","K","L","M",
                "N","O","P","Q","R","S","T","U","V","W","X","Y","Z">>

Range(s) == { s[i] : i \in DOMAIN s }

IsLower(ch) == ch \in Range(LowerChars)
IsUpper(ch) == ch \in Range(UpperChars)
IsCased(ch) == IsLower(ch) \/ IsUpper(ch)

PosIn(s, x) == CHOOSE i \in DOMAIN s : s[i] = x /\ \A j \in 1..(i-1) : s[j] # x

ToUpper(ch) == IF IsLower(ch) THEN UpperChars[PosIn(LowerChars, ch)] ELSE ch
ToLower(ch) == IF IsUpper(ch) THEN LowerChars[PosIn(UpperChars, ch)] ELSE ch

\* str.title(): a cased character is upper-cased when the character before it
\* is not cased (or there is none) and lower-cased otherwise
Title(s) ==
    [ i \in DOMAIN s |->
        IF ~IsCased(s[i]) THEN s[i]
        ELSE IF i = 1 \/ ~IsCased(s[i-1]) THEN ToUpper(s[i])
        ELSE ToLower(s[i]) ]

\* a mutant of TitleAll: the labels taken as they are
TitleAll_raw(xs) == xs

\* [c.title() for c in xs]
TitleAll(xs) == [ i \in DOMAIN xs |-> Title(xs[i]) ]

\* `x in xs`
Member(xs, x) == x \in Range(xs)

\* xs.index(x), 0-based, first occurrence
Index(xs, x) == PosIn(xs, x) - 1

Wheat  == <<"W","h","e","a","t">>
Rice   == <<"R","i","c","e">>
Maize  == <<"M","a","i","z","e">>
Millet == <<"M","i","l","l","e","t">>
Barley == <<"B","a","r","l","e","y">>

\* crops of create_placeholder_model
PlaceholderCrops == <<Wheat, Rice, Maize, Millet, Barley>>
\* the default of the load branch
DefaultCrops == <<Wheat, Rice, Maize, Millet, Barley>>

(***************************************************************************)
(* Model objects                                                           *)
(***************************************************************************)
\* the row the serving code builds: [crop_idx, ndvi]
ServingSchema == <<"crop_index", "ndvi">>

\* `features` of the training script, the columns its pipeline is fitted on
features == <<"ndvi", "temp_min", "temp_max", "temp_range",
              "humidity_min", "humidity_max", "humidity_range",
              "rainfall_mm", "soil_moisture", "crop_type",
              "cloud_condition", "season">>

\* the name `model` before the module-level code binds it
NoModel ==
    [ name |-> "unbound", repr |-> <<>>, hasClasses |-> FALSE, classes |-> <<>>,
      classesAreStr |-> TRUE, schema |-> <<>>, table |-> "none" ]

\* create_placeholder_model: RandomForestRegressor(n_estimators=10, random_state=42)
\* fitted on rows [crop_index, ndvi]; repr is the words of str(model)
PlaceholderModel ==
    [ name |-> "placeholder",
      repr |-> <<"RandomForestRegressor", "n_estimators", "10", "random_state", "42">>,
      hasClasses |-> FALSE, classes |-> <<>>, classesAreStr |-> TRUE,
      schema |-> ServingSchema, table |-> "synthetic" ]

\* the Pipeline the training script fits and dumps; Pipeline.classes_ is that of
\* its last step, and a regressor has none
TrainedPipeline ==
    [ name |-> "pipeline",
      repr |-> <<"Pipeline", "steps", "preprocessor", "ColumnTransformer",
                 "transformers", "num", "scaler", "StandardScaler", "cat", "onehot",
                 "OneHotEncoder", "handle_unknown", "ignore", "regressor",
                 "RandomForestRegressor", "random_state", "42">>,
      hasClasses |-> FALSE, classes |-> <<>>, classesAreStr |-> TRUE,
      schema |-> features, table |-> "none" ]

\* other objects the model file can hold: an estimator fitted on [crop_index, ndvi]
Regressor(name, table) ==
    [ name |-> name, repr |-> <<"RandomForestRegressor">>,
      hasClasses |-> FALSE, classes |-> <<>>, classesAreStr |-> TRUE,
      schema |-> ServingSchema, table |-> table ]

\* ... and one that exposes classes_ (sorted as numpy sorts: upper case first)
Labelled(name, classes, areStr, table) ==
    [ name |-> name, repr |-> <<"Estimator">>,
      hasClasses |-> TRUE, classes |-> classes, classesAreStr |-> areStr,
      schema |-> ServingSchema, table |-> table ]

RawLabels == << <<"W","H","E","A","T">>, <<"r","i","c","e">>,
                <<"s","w","e","e","t"," ","c","o","r","n">>,
                <<"w","h","e","a","t">> >>

Artifacts ==
    { TrainedPipeline,
      Regressor("flat", "flat"),
      Regressor("nearTie", "nearTie"),
      Regressor("peaked", "peaked"),
      Labelled("labelled", RawLabels, TRUE, "peaked"),
      Labelled("classifier", RawLabels, TRUE, "labels"),
      Labelled("intLabels", << <<"0">>, <<"1">> >>, FALSE, "flat"),
      Labelled("noLabels", <<>>, TRUE, "flat") }

\* the model file: absent, unreadable by joblib.load, or holding an object
DiskStates ==
    { [exists |-> FALSE, readable |-> FALSE, obj |-> NoModel],
      [exists |-> TRUE,  readable |-> FALSE, obj |-> NoModel] }
    \cup { [exists |-> TRUE, readable |-> TRUE, obj |-> a] : a \in Artifacts }

Clamp(x, lo, hi) == IF x < lo THEN lo ELSE IF x > hi THEN hi ELSE x

\* what a fitted estimator answers for the row [i, ndvi], in thousandths.
\* "synthetic" is the target create_placeholder_model fits, (i+1)*2 + ndvi*5,
\* which a forest holds constant outside the NDVI range 0.3 .. 0.9 it has seen
PredictValue(table, i, ndvi) ==
    CASE table = "synthetic" ->
            (i + 1) * 2000 + Clamp((ndvi * 5000) \div NdviSteps, 1500, 4500)
      [] table = "flat"    -> 5004
      [] table = "nearTie" -> 3000 + i
      [] table = "peaked"  -> IF i % 2 = 1 THEN 7000 ELSE 1000 + ndvi
      [] OTHER -> 0

\* model.predict([[i, ndvi]])[0]: raises when the row is not of the schema the
\* estimator was fitted on; a classifier answers a label
Predict(m, i, ndvi) ==
    IF m.schema # ServingSchema THEN [kind |-> "raise", v |-> 0]
    ELSE IF m.table = "labels" THEN [kind |-> "label", v |-> 0]
    ELSE [kind |-> "num", v |-> PredictValue(m.table, i, ndvi)]

\* round(x, 2) of a number in thousandths, in hundredths; ties go to even
Round2(x) ==
    LET q == x \div 10
        r == x % 10
    IN  IF r < 5 THEN q
        ELSE IF r > 5 THEN q + 1
        ELSE IF q % 2 = 0 THEN q ELSE q + 1

(***************************************************************************)
(* Requests and responses                                                  *)
(***************************************************************************)
CropInputs == { <<"w","h","e","a","t">>, <<"R","I","C","E">>, Barley, <<"s","o","y">> }

Requests ==
    { [ep |-> "health", crop_type |-> <<>>, ndvi |-> 0] }
    \cup { [ep |-> "predict", crop_type |-> c, ndvi |-> n] :
             c \in CropInputs, n \in NdviInputs }
    \cup { [ep |-> "recommend", crop_type |-> <<>>, ndvi |-> n] : n \in NdviInputs }

NoRequest == [ep |-> "none", crop_type |-> <<>>, ndvi |-> 0]

\* status 0: nothing sent.  detail is "dict" or "str" for an HTTPException,
\* whose fields are error / message / available_crops / received_*
NoResponse ==
    [ status |-> 0, detail |-> "none", error |-> "", message |-> "",
      available_crops |-> <<>>, received_crop |-> <<>>, received_ndvi |-> 0,
      predicted_yield |-> 0, crop_type |-> <<>>, recommended_crop |-> <<>>,
      all_options |-> <<>>, units |-> "", model_version |-> "", model_status |-> "" ]

\* `"placeholder" in str(model)`, on the words of the repr
ReprHasPlaceholder(m) == Member(m.repr, "placeholder")

\* the body of health_check
HealthBody(m, crops) ==
    [ NoResponse EXCEPT
        !.status = 200,
        !.model_status = IF ReprHasPlaceholder(m) THEN "placeholder" ELSE "production",
        !.available_crops = crops ]

\* 0 <= ndvi <= 1
NdviInRange(ndvi) == 0 <= ndvi /\ ndvi <= NdviSteps

\* What a try block ends with: kind is "return", "http" (an HTTPException) or
\* "exc" (any other exception); calls are the rows handed to model.predict.
Outcome(kind, resp, calls) == [kind |-> kind, resp |-> resp, calls |-> calls]

\* the try block of predict_yield
PredictYieldTry(m, crops, data) ==
    LET crop_type == Title(data.crop_type)
        crop_idx  == Index(crops, crop_type)
        p         == Predict(m, crop_idx, data.ndvi)
    IN  IF ~Member(crops, crop_type) THEN
            Outcome("http",
                    [ NoResponse EXCEPT !.status = 400, !.detail = "dict",
                        !.error = "Invalid crop type", !.available_crops = crops,
                        !.received_crop = data.crop_type ], <<>>)
        ELSE IF ~NdviInRange(data.ndvi) THEN
            Outcome("http",
                    [ NoResponse EXCEPT !.status = 400, !.detail = "dict",
                        !.error = "Invalid NDVI",
                        !.message = "NDVI must be between 0 and 1",
                        !.received_ndvi = data.ndvi ], <<>>)
        ELSE IF p.kind = "raise" THEN
            \* model.predict raised
            Outcome("exc", [NoResponse EXCEPT !.message = "ValueError"],
                    << <<crop_idx, data.ndvi>> >>)
        ELSE IF p.kind = "label" THEN
            \* round(<str>, 2) raised
            Outcome("exc", [NoResponse EXCEPT !.message = "TypeError"],
                    << <<crop_idx, data.ndvi>> >>)
        ELSE
            Outcome("return",
                    [ NoResponse EXCEPT !.status = 200,
                        !.predicted_yield = Round2(p.v), !.crop_type = crop_type,
                        !.units = "tons/hectare", !.model_version = "1.0" ],
                    << <<crop_idx, data.ndvi>> >>)

\* a mutant of PredictYieldExcept: no `except HTTPException: raise` clause
PredictYieldExcept_noReraise(o) ==
    IF o.kind = "return" THEN o.resp
    ELSE [ NoResponse EXCEPT !.status = 500, !.detail = "dict",
             !.error = "Prediction failed", !.message = o.resp.message ]

\* the except clauses of predict_yield: an HTTPException is raised again, any
\* other exception becomes a 500 whose detail carries str(e)
PredictYieldExcept(o) ==
    IF o.kind = "return" THEN o.resp
    ELSE IF o.kind = "http" THEN o.resp
    ELSE [ NoResponse EXCEPT !.status = 500, !.detail = "dict",
             !.error = "Prediction failed", !.message = o.resp.message ]

\* the scoring loop of recommend_crop from catalog position i (1-based here;
\* the index handed to the model is i - 1): stops at the first exception
RECURSIVE ScoreLoop(_, _, _, _, _, _)
ScoreLoop(m, crops, ndvi, i, results, calls) ==
    IF i > Len(crops) THEN [raised |-> "", results |-> results, calls |-> calls]
    ELSE LET p   == Predict(m, i - 1, ndvi)
             log == Append(calls, <<i - 1, ndvi>>)
         IN  IF p.kind = "raise" THEN
                 [raised |-> "ValueError", results |-> results, calls |-> log]
             ELSE IF p.kind = "label" THEN
                 [raised |-> "TypeError", results |-> results, calls |-> log]
             ELSE ScoreLoop(m, crops, ndvi, i + 1,
                            Append(results, [crop |-> crops[i],
                                             predicted_yield |-> Round2(p.v)]),
                            log)

\* max(results, key=...) from position k on: a later element replaces the best
\* so far only when its key is strictly greater
RECURSIVE MaxScan(_, _, _)
MaxScan(results, k, best) ==
    IF k > Len(results) THEN best
    ELSE MaxScan(results, k + 1,
                 IF results[k].predicted_yield > best.predicted_yield
                 THEN results[k] ELSE best)

\* the try block of recommend_crop
RecommendCropTry(m, crops, data) ==
    IF ~NdviInRange(data.ndvi) THEN
        Outcome("http",
                [ NoResponse EXCEPT !.status = 400, !.detail = "str",
                    !.message = "NDVI must be between 0 and 1" ], <<>>)
    ELSE LET loop == ScoreLoop(m, crops, data.ndvi, 1, <<>>, <<>>)
         IN  IF loop.raised # "" THEN
                 Outcome("exc", [NoResponse EXCEPT !.message = loop.raised], loop.calls)
             ELSE IF loop.results = <<>> THEN
                 \* max() of an empty list
                 Outcome("exc", [NoResponse EXCEPT !.message = "ValueError"], loop.calls)
             ELSE LET best_crop == MaxScan(loop.results, 2, loop.results[1])
                  IN  Outcome("return",
                              [ NoResponse EXCEPT !.status = 200,
                                  !.recommended_crop = best_crop.crop,
                                  !.predicted_yield = best_crop.predicted_yield,
                                  !.all_options = loop.results,
                                  !.units = "tons/hectare" ],
                              loop.calls)

\* the except clauses of recommend_crop
RecommendCropExcept(o) ==
    IF o.kind = "return" THEN o.resp
    ELSE IF o.kind = "http" THEN o.resp
    ELSE [ NoResponse EXCEPT !.status = 500, !.detail = "str",
             !.error = "Recommendation failed", !.message = o.resp.message ]

(***************************************************************************)
(* The training script: feature engineering and its predict_yield          *)
(***************************************************************************)
Months   == (1 - MonthSlack) .. (12 + MonthSlack)
Readings == 0 .. MaxReading

\* one row of crop_yield_data.csv
CsvRow(month, tmin, tmax, hmin, hmax) ==
    [ ndvi |-> 1, temp_min |-> tmin, temp_max |-> tmax,
      humidity_min |-> hmin, humidity_max |-> hmax,
      rainfall_mm |-> 200, soil_moisture |-> 3, crop_type |-> "Maize",
      cloud_condition |-> "Partly Cloudy", month |-> month, crop_yield |-> 4 ]

CsvRows ==
    { CsvRow(mo, a, b, c, d) :
        mo \in Months, a \in Readings, b \in Readings, c \in Readings, d \in Readings }

NoFrame == [cols |-> <<>>, vals |-> <<>>]

\* a mutant of SeasonOfRow: December counted as Autumn
SeasonOfRow_noDecember(x) ==
    IF x \in {1, 2} THEN "Winter"
    ELSE IF x \in {3, 4, 5} THEN "Spring"
    ELSE IF x \in {6, 7, 8} THEN "Summer"
    ELSE "Autumn"

\* the lambda applied to data['month']
SeasonOfRow(x) ==
    IF x \in {12, 1, 2} THEN "Winter"
    ELSE IF x \in {3, 4, 5} THEN "Spring"
    ELSE IF x \in {6, 7, 8} THEN "Summer"
    ELSE "Autumn"

\* the conditional expression inside predict_yield
SeasonOfMonth(month) ==
    IF month \in {12, 1, 2} THEN "Winter"
    ELSE IF month \in {3, 4, 5} THEN "Spring"
    ELSE IF month \in {6, 7, 8} THEN "Summer"
    ELSE "Autumn"

\* data with the three engineered columns added
Engineered(row) ==
    [ c \in DOMAIN row \cup {"temp_range", "humidity_range", "season"} |->
        CASE c = "temp_range"     -> row.temp_max - row.temp_min
          [] c = "humidity_range" -> row.humidity_max - row.humidity_min
          [] c = "season"         -> SeasonOfRow(row.month)
          [] OTHER                -> row[c] ]

\* X = data[features]
SelectFeatures(row) ==
    [ cols |-> features, vals |-> [ i \in DOMAIN features |-> row[features[i]] ] ]

\* the one-row DataFrame predict_yield builds from its arguments
InputData(ndvi, temp_min, temp_max, humidity_min, humidity_max, rainfall, soil_moisture, cloud_condition, crop_type, month) ==
    LET temp_range     == temp_max - temp_min
        humidity_range == humidity_max - humidity_min
        season         == SeasonOfMonth(month)
    IN  [ cols |-> <<"ndvi", "temp_min", "temp_max", "temp_range",
                     "humidity_min", "humidity_max", "humidity_range",
                     "rainfall_mm", "soil_moisture", "crop_type",
                     "cloud_condition", "season">>,
          vals |-> <<ndvi, temp_min, temp_max, temp_range,
                     humidity_min, humidity_max, humidity_range,
                     rainfall, soil_moisture, crop_type,
                     cloud_condition, season>> ]

\* lines 27-40: the engineered training row
FeatureEngineering ==
    /\ trainRow = NoFrame
    /\ trainRow' = SelectFeatures(Engineered(csv))
    /\ UNCHANGED <<pc, disk, model, CROP_LIST, bound, slot, csv, inputRow>>

\* predict_yield of the script, called after the fit with the values of the row
ScriptPredictYield ==
    /\ trainRow # NoFrame
    /\ inputRow = NoFrame
    /\ inputRow' = InputData(csv.ndvi, csv.temp_min, csv.temp_max, csv.humidity_min,
                             csv.humidity_max, csv.rainfall_mm, csv.soil_moisture,
                             csv.cloud_condition, csv.crop_type, csv.month)
    /\ UNCHANGED <<pc, disk, model, CROP_LIST, bound, slot, csv, trainRow>>

(***************************************************************************)
(* The service: module-level code                                          *)
(***************************************************************************)
IdleSlot == [phase |-> "idle", req |-> NoRequest, resp |-> NoResponse, calls |-> <<>>]

\* lines 81-89: the file is looked up and deserialized; a missing file raises
\* FileNotFoundError, joblib.load may raise
LoadModel ==
    /\ pc = "boot"
    /\ IF disk.exists /\ disk.readable
       THEN /\ model' = disk.obj
            /\ bound' = bound \cup {"model"}
            /\ pc' = "derive"
       ELSE /\ pc' = "except"
            /\ UNCHANGED <<model, bound>>
    /\ UNCHANGED <<disk, CROP_LIST, slot, csv, trainRow, inputRow>>

\* lines 93-96: c.title() raises AttributeError on a label that is no str
DeriveCropList ==
    /\ pc = "derive"
    /\ IF model.hasClasses
       THEN IF model.classesAreStr
            THEN /\ CROP_LIST' = TitleAll(model.classes)
                 /\ bound' = bound \cup {"CROP_LIST"}
                 /\ pc' = "serving"
            ELSE /\ pc' = "except"
                 /\ UNCHANGED <<CROP_LIST, bound>>
       ELSE /\ CROP_LIST' = DefaultCrops
            /\ bound' = bound \cup {"CROP_LIST"}
            /\ pc' = "serving"
    /\ UNCHANGED <<disk, model, slot, csv, trainRow, inputRow>>

\* a mutant of Fallback: only the catalog is replaced when a model was loaded
Fallback_keepLoaded ==
    /\ pc = "except"
    /\ model' = IF "model" \in bound THEN model ELSE PlaceholderModel
    /\ CROP_LIST' = PlaceholderCrops
    /\ bound' = {"model", "CROP_LIST"}
    /\ pc' = "serving"
    /\ UNCHANGED <<disk, slot, csv, trainRow, inputRow>>

\* lines 100-103: model, CROP_LIST = create_placeholder_model()
Fallback ==
    /\ pc = "except"
    /\ model' = PlaceholderModel
    /\ CROP_LIST' = PlaceholderCrops
    /\ bound' = {"model", "CROP_LIST"}
    /\ pc' = "serving"
    /\ UNCHANGED <<disk, slot, csv, trainRow, inputRow>>

(***************************************************************************)
(* The service: request handlers.  A handler is an `async def` without an  *)
(* await, so the event loop runs each one to its end before the next.      *)
(***************************************************************************)
\* a request arrives on a connection that has none in flight
Receive(c, r) ==
    /\ pc = "serving"
    /\ slot[c].phase # "pending"
    /\ slot' = [slot EXCEPT ![c] = [phase |-> "pending", req |-> r,
                                    resp |-> NoResponse, calls |-> <<>>]]
    /\ UNCHANGED <<pc, disk, model, CROP_LIST, bound, csv, trainRow, inputRow>>

Answer(c, resp, calls) ==
    slot' = [slot EXCEPT ![c] = [phase |-> "done", req |-> slot[c].req,
                                 resp |-> resp, calls |-> calls]]

\* GET /health
health_check(c) ==
    /\ slot[c].phase = "pending"
    /\ slot[c].req.ep = "health"
    /\ Answer(c, HealthBody(model, CROP_LIST), <<>>)
    /\ UNCHANGED <<pc, disk, model, CROP_LIST, bound, csv, trainRow, inputRow>>

\* a mutant of predict_yield: a crop that is not in the catalog is added to it
predict_yield_register(c) ==
    /\ slot[c].phase = "pending"
    /\ slot[c].req.ep = "predict"
    /\ LET o == PredictYieldTry(model, CROP_LIST, slot[c].req)
       IN  /\ Answer(c, PredictYieldExcept(o), o.calls)
           /\ CROP_LIST' = IF Member(CROP_LIST, Title(slot[c].req.crop_type))
                           THEN CROP_LIST
                           ELSE Append(CROP_LIST, Title(slot[c].req.crop_type))
    /\ UNCHANGED <<pc, disk, model, bound, csv, trainRow, inputRow>>

\* a mutant of predict_yield: the request is read from a name the handlers
\* share, which a request waiting on another connection has overwritten
predict_yield_shared(c) ==
    /\ slot[c].phase = "pending"
    /\ slot[c].req.ep = "predict"
    /\ LET others == { d \in Clients \ {c} :
                         slot[d].phase = "pending" /\ slot[d].req.ep = "predict" }
           data   == IF others = {} THEN slot[c].req
                     ELSE slot[CHOOSE d \in others : TRUE].req
           o      == PredictYieldTry(model, CROP_LIST, data)
       IN  Answer(c, PredictYieldExcept(o), o.calls)
    /\ UNCHANGED <<pc, disk, model, CROP_LIST, bound, csv, trainRow, inputRow>>

\* POST /api/predict-yield
predict_yield(c) ==
    /\ slot[c].phase = "pending"
    /\ slot[c].req.ep = "predict"
    /\ LET o == PredictYieldTry(model, CROP_LIST, slot[c].req)
       IN  Answer(c, PredictYieldExcept(o), o.calls)
    /\ UNCHANGED <<pc, disk, model, CROP_LIST, bound, csv, trainRow, inputRow>>

\* POST /api/recommended-crop
recommend_crop(c) ==
    /\ slot[c].phase = "pending"
    /\ slot[c].req.ep = "recommend"
    /\ LET o == RecommendCropTry(model, CROP_LIST, slot[c].req)
       IN  Answer(c, RecommendCropExcept(o), o.calls)
    /\ UNCHANGED <<pc, disk, model, CROP_LIST, bound, csv, trainRow, inputRow>>

(***************************************************************************)
(* Specifications                                                          *)
(***************************************************************************)
NoCsv == CsvRow(1, 0, 0, 0, 0)

Init ==
    /\ pc = "boot"
    /\ disk \in DiskStates
    /\ model = NoModel
    /\ CROP_LIST = <<>>
    /\ bound = {}
    /\ slot = [c \in Clients |-> IdleSlot]
    /\ csv = NoCsv
    /\ trainRow = NoFrame
    /\ inputRow = NoFrame

Next ==
    \/ LoadModel
    \/ DeriveCropList
    \/ Fallback
    \/ \E c \in Clients, r \in Requests : Receive(c, r)
    \/ \E c \in Clients : health_check(c)
    \/ \E c \in Clients : predict_yield(c)
    \/ \E c \in Clients : recommend_crop(c)

Spec == Init /\ [][Next]_vars

\* the training script on its own
TrainInit ==
    /\ pc = "boot"
    /\ disk = [exists |-> FALSE, readable |-> FALSE, obj |-> NoModel]
    /\ model = NoModel
    /\ CROP_LIST = <<>>
    /\ bound = {}
    /\ slot = [c \in Clients |-> IdleSlot]
    /\ csv \in CsvRows
    /\ trainRow = NoFrame
    /\ inputRow = NoFrame

TrainNext ==
    \/ FeatureEngineering
    \/ ScriptPredictYield

TrainSpec == TrainInit /\ [][TrainNext]_vars

(***************************************************************************)
(* Properties                                                              *)
(***************************************************************************)
HardCodedFive ==
    << <<"W","h","e","a","t">>, <<"R","i","c","e">>, <<"M","a","i","z","e">>,
       <<"M","i","l","l","e","t">>, <<"B","a","r","l","e","y">> >>

\* loading fails: no file, joblib.load raises, or a label has no .title()
LoadFails == ~disk.exists \/ ~disk.readable
             \/ (disk.obj.hasClasses /\ ~disk.obj.classesAreStr)

Done(c, ep) == slot[c].phase = "done" /\ slot[c].req.ep = ep

\* C1: however loading fails (file absent, joblib.load raising, the crop list
\* derivation raising), the service starts with the placeholder regressor and
\* the hard-coded five crops; after startup both globals are bound, and a
\* loaded model is never paired with the placeholder's catalog or the reverse.
C1_StartupFallback ==
    pc = "serving" =>
        /\ bound = {"model", "CROP_LIST"}
        /\ model # NoModel
        /\ LoadFails =>
             /\ model.name = "placeholder"
             /\ model.table = "synthetic"
             /\ model.schema = <<"crop_index", "ndvi">>
             /\ CROP_LIST = HardCodedFive
        /\ ~LoadFails => model = disk.obj /\ model.name # "placeholder"

\* the crop list derivation raised after the model had been loaded
C1_Witness ==
    /\ pc = "serving"
    /\ disk.exists /\ disk.readable
    /\ disk.obj.hasClasses /\ ~disk.obj.classesAreStr
    /\ model.name = "placeholder"

C3_FeatureSchema ==
    \A c \in Clients :
        (/\ pc = "serving"
         /\ model.name \in {"pipeline", "placeholder"}
         /\ slot[c].calls # <<>>)
        => /\ model.schema = <<"crop_index", "ndvi">>
           /\ \A k \in DOMAIN slot[c].calls :
                Len(slot[c].calls[k]) = Len(model.schema)

\* the artifacts of this repository: the dumped pipeline and the placeholder
RepoModel == model.name \in {"pipeline", "placeholder"}

\* C4: a recommended-crop request with NDVI in [0, 1] on a non-empty catalog
\* scores every catalog crop once, in catalog order, at that NDVI, returns
\* them all in all_options, and recommends the first entry of all_options
\* whose rounded yield is the greatest.
C4_RecommendArgmax ==
    \A c \in Clients :
        (/\ Done(c, "recommend")
         /\ RepoModel
         /\ 0 <= slot[c].req.ndvi /\ slot[c].req.ndvi <= NdviSteps
         /\ CROP_LIST # <<>>)
        => LET resp == slot[c].resp
               opts == resp.all_options
           IN  /\ slot[c].calls =
                    [ i \in DOMAIN CROP_LIST |-> <<i - 1, slot[c].req.ndvi>> ]
               /\ Len(opts) = Len(CROP_LIST)
               /\ \A i \in DOMAIN opts : opts[i].crop = CROP_LIST[i]
               /\ \E k \in DOMAIN opts :
                    /\ opts[k].crop = resp.recommended_crop
                    /\ opts[k].predicted_yield = resp.predicted_yield
                    /\ \A j \in DOMAIN opts :
                         opts[j].predicted_yield <= opts[k].predicted_yield
                    /\ \A j \in 1..(k - 1) :
                         opts[j].predicted_yield < opts[k].predicted_yield

\* C5: once the module-level code has finished, no step changes the global
\* model or CROP_LIST.
C5_NoWritersAfterStartup ==
    [][pc = "serving" => (model' = model /\ CROP_LIST' = CROP_LIST /\ pc' = pc)]_vars

\* requests of all three endpoints were handled, one refused and one answered
C5_Witness ==
    \E c1, c2 \in Clients :
        /\ Done(c1, "predict") /\ slot[c1].resp.status = 400
        /\ Done(c2, "recommend") /\ slot[c2].resp.status = 200

\* C6: two prediction requests with the same payload get the same status and
\* body, whatever was handled on the other connection before or in between.
C6_RequestIndependence ==
    \A c1, c2 \in Clients :
        (/\ slot[c1].phase = "done"
         /\ slot[c2].phase = "done"
         /\ slot[c1].req = slot[c2].req
         /\ slot[c1].req.ep \in {"predict", "recommend"})
        => slot[c1].resp = slot[c2].resp

\* the same payload was answered 200 on both connections
C6_Witness ==
    \E c1, c2 \in Clients :
        /\ c1 # c2
        /\ Done(c1, "predict") /\ Done(c2, "predict")
        /\ slot[c1].req = slot[c2].req
        /\ slot[c1].resp.status = 200
        /\ slot[c1].req.ndvi > 0

\* t is s title-cased: the same letters, a letter in upper case exactly when
\* no letter stands before it
IsTitleOf(t, s) ==
    /\ Len(t) = Len(s)
    /\ \A i \in DOMAIN s :
         /\ ToLower(t[i]) = ToLower(s[i])
         /\ IsCased(s[i]) =>
              (IsUpper(t[i]) <=> (i = 1 \/ ~IsCased(s[i - 1])))

\* C7: when the model file loads, the catalog is the model's classes_, each
\* title-cased and in order, if the model has classes_, and the hard-coded
\* five otherwise; after startup the catalog is one of the two, and it is the
\* list predict-yield checks membership in and takes the crop index from.
C7_CatalogDerivation ==
    pc = "serving" =>
        /\ (model = disk.obj /\ model.hasClasses) =>
             /\ Len(CROP_LIST) = Len(model.classes)
             /\ \A i \in DOMAIN CROP_LIST : IsTitleOf(CROP_LIST[i], model.classes[i])
        /\ (model = disk.obj /\ ~model.hasClasses) => CROP_LIST = HardCodedFive
        /\ \/ CROP_LIST = HardCodedFive
           \/ /\ disk.obj.hasClasses
              /\ Len(CROP_LIST) = Len(disk.obj.classes)
              /\ \A i \in DOMAIN CROP_LIST :
                   IsTitleOf(CROP_LIST[i], disk.obj.classes[i])
        /\ \A c \in Clients : Done(c, "predict") =>
             LET known == \E i \in DOMAIN CROP_LIST :
                              IsTitleOf(CROP_LIST[i], slot[c].req.crop_type)
             IN  /\ (slot[c].resp.error = "Invalid crop type") <=> ~known
                 /\ slot[c].calls # <<>> =>
                      /\ slot[c].calls[1][1] + 1 \in DOMAIN CROP_LIST
                      /\ IsTitleOf(CROP_LIST[slot[c].calls[1][1] + 1],
                                   slot[c].req.crop_type)
                      /\ \A j \in 1..slot[c].calls[1][1] :
                           ~IsTitleOf(CROP_LIST[j], slot[c].req.crop_type)

\* a catalog derived from classes_ with a repeated and a two-word name, used
\* to answer a request
C7_Witness ==
    /\ pc = "serving"
    /\ model.hasClasses
    /\ CROP_LIST = << <<"W","h","e","a","t">>, <<"R","i","c","e">>,
                      <<"S","w","e","e","t"," ","C","o","r","n">>,
                      <<"W","h","e","a","t">> >>
    /\ \E c \in Clients : Done(c, "predict") /\ slot[c].resp.status = 200

\* C8: a predict-yield request reaches model.predict exactly when its
\* title-cased crop is in the catalog and 0 <= ndvi <= 1; an unknown crop is
\* reported before a bad NDVI; an accepted request hands the model the
\* position of the title-cased crop and its response echoes that name.
C8_PredictValidation ==
    \A c \in Clients :
        (Done(c, "predict") /\ RepoModel) =>
            LET r     == slot[c].req
                known == \E i \in DOMAIN CROP_LIST : IsTitleOf(CROP_LIST[i], r.crop_type)
                inRng == 0 <= r.ndvi /\ r.ndvi <= NdviSteps
            IN  /\ (slot[c].calls # <<>>) <=> (known /\ inRng)
                /\ ~known => slot[c].resp.error = "Invalid crop type"
                /\ (known /\ ~inRng) => slot[c].resp.error = "Invalid NDVI"
                /\ (known /\ inRng) =>
                     /\ Len(slot[c].calls) = 1
                     /\ slot[c].calls[1][2] = r.ndvi
                     /\ IsTitleOf(CROP_LIST[slot[c].calls[1][1] + 1], r.crop_type)
                     /\ \A j \in 1..slot[c].calls[1][1] :
                          ~IsTitleOf(CROP_LIST[j], r.crop_type)
                     /\ IsTitleOf(slot[c].resp.crop_type, r.crop_type)

\* the season column of a frame
SeasonIn(frame) == frame.vals[PosIn(frame.cols, "season")]

\* C9: for every month, also outside 1..12, the season of the training row
\* and the season predict_yield computes are the same: Winter for 12, 1, 2,
\* Spring for 3, 4, 5, Summer for 6, 7, 8, Autumn otherwise; both ranges are
\* max minus min; and predict_yield's row has the twelve fitted columns.
C9_DerivedFeatures ==
    LET expected == CASE csv.month \in {12, 1, 2} -> "Winter"
                      [] csv.month \in {3, 4, 5}  -> "Spring"
                      [] csv.month \in {6, 7, 8}  -> "Summer"
                      [] OTHER                    -> "Autumn"
        ok(frame) ==
            /\ SeasonIn(frame) = expected
            /\ frame.vals[PosIn(frame.cols, "temp_range")]
                 = csv.temp_max - csv.temp_min
            /\ frame.vals[PosIn(frame.cols, "humidity_range")]
                 = csv.humidity_max - csv.humidity_min
    IN  /\ trainRow # NoFrame => ok(trainRow)
        /\ inputRow # NoFrame =>
             /\ ok(inputRow)
             /\ SeasonIn(inputRow) = SeasonIn(trainRow)
             /\ inputRow.cols = trainRow.cols
             /\ Cardinality(Range(inputRow.cols)) = 12
             /\ inputRow.vals = trainRow.vals

\* both rows were built for a month past December
C9_Witness ==
    /\ trainRow # NoFrame
    /\ inputRow # NoFrame
    /\ csv.month > 12
    /\ csv.temp_max < csv.temp_min

\* C10: /health reports "placeholder" when startup fell back to the
\* placeholder and "production" when the model came from the file, and lists
\* the catalog the prediction endpoints validate against.
C10_HealthStatus ==
    \A c \in Clients : Done(c, "health") =>
        /\ slot[c].resp.model_status =
             IF LoadFails THEN "placeholder" ELSE "production"
        /\ slot[c].resp.available_crops = CROP_LIST

====
